---- MODULE Spec2Model ----
(***************************************************************************)
(* State-machine model of the real-time capture / transcription /          *)
(* translation orchestrator of src/index.tsx.  The file holds two variants *)
(* of the orchestrator, VoiceNotesApp (lines 21-1013) and GeminiLiveApp    *)
(* (lines 1021-1377); the variable app says which one is running.          *)
(*                                                                         *)
(* Every start invocation i creates its own objects (capture stream i,     *)
(* recognizer i, audio contexts i, processor i, cloud connection i); the   *)
(* fields of the app object (this.stream, this.recognition, ...) hold the  *)
(* number of the object they reference, 0 standing for null.               *)
(***************************************************************************)
EXTENDS Integers, Sequences, FiniteSets, TLC

\* ---------------------------------------------------------------- bounds
MaxStarts   == 2   \* start invocations in one run
MaxSegments == 2   \* finalized raw segments kept in the raw log
MaxTranslated == 2 \* entries kept in the translated log
MaxChunks   == 3   \* audio chunks scheduled in one run
MaxTime     == 2   \* ticks of an output context's clock
MaxDur      == 2   \* longest chunk, in ticks
MaxFrames   == 2   \* captured audio frames in one run
MaxTimers   == 1   \* pending restart timers
MaxRequests == 2   \* translation requests in flight
MaxResults  == 2   \* results carried by one recognizer event
OneSession  == 1   \* start invocations in the single-session specifications
PlayChunks  == 2   \* chunks scheduled in the two-session playback specification

Starts == 1..MaxStarts

\* ------------------------------------------------------------- alphabets
Sources       == {"mic", "system"}
InputLanguages  == {"auto", "en-US", "es"}
OutputLanguages == {"none", "en-US", "es"}
Transcripts   == {<<"a", "b">>, <<" ">>}
CloudTexts    == {<<"x">>}
ErrorCodes    == {"aborted", "not-allowed", "no-speech", "network"}
Apps          == {"VoiceNotesApp", "GeminiLiveApp"}

VARIABLES
  app,                \* which class of src/index.tsx runs
  env,                \* the browser: [webSpeech, apiKey]
  selectedSourceType, \* this.selectedSourceType
  isRecording,        \* this.isRecording
  isWebSpeechActive,  \* this.isWebSpeechActive
  nextStartTime,      \* this.nextStartTime, the playback cursor
  recordingStatus,    \* this.recordingStatus.textContent
  isLive,             \* the live display state (is-live class / green status)
  rawTranscription,   \* children of the raw transcript element, in order
  rawInterimSpan,     \* this.rawInterimSpan / rawInterimDiv: position of the node, 0 = null
  translatedContent,  \* children of the translated element, in order
  recognition,        \* this.recognition
  stream,             \* this.stream
  processor,          \* this.processor
  sourceNode,         \* this.sourceNode
  audioContext,       \* this.audioContext
  outputAudioContext, \* this.outputAudioContext
  outputGainNode,     \* this.outputGainNode: the output context it was created on
  sessionPromise,     \* this.sessionPromise
  nStarts,            \* start invocations so far
  sess,               \* per start invocation: position and closure constants;
                      \*   stop: "no", or "invoked" / "done" once the
                      \*   stopLiveSession that ends this session has been
                      \*   invoked / has run to its end
  conn,               \* per connection: state of the duplex connection
  rec,                \* per recognizer: [st: "none" | "running" | "idle",
                      \*   fatal: it has reported a fatal error,
                      \*   failedIn: the session (number of start
                      \*   invocations) in which a restart of it threw, 0
                      \*   when none has]
  tracks,             \* per capture stream: "none" | "live" | "noaudio" | "stopped"
  ctxIn,              \* per input context: "none" | "running" | "closing" | "closed"
  ctxOut,             \* per output context: [state, time]
  proc,               \* per processor: [ctx, handler]
  stops,              \* stop invocations suspended on a context's close()
  timers,             \* pending restart timers (setTimeout of onend), each
                      \*   the recognizer whose onend set it
  statusResets,       \* pending 'Ready to stream' timers (GeminiLiveApp)
  requests,           \* translation requests in flight
  pending,            \* per connection: sends deferred until the promise resolves
  wire,               \* per connection: sends issued on the resolved session
  frameNo,            \* captured frames so far
  scheduled,          \* audio chunks handed to source.start, in order
  last                \* the handler that ran last, with its inputs

vars == <<app, env, selectedSourceType, isRecording, isWebSpeechActive,
          nextStartTime, recordingStatus, isLive, rawTranscription,
          rawInterimSpan, translatedContent, recognition, stream, processor,
          sourceNode, audioContext, outputAudioContext, outputGainNode,
          sessionPromise, nStarts, sess, conn, rec, tracks, ctxIn, ctxOut, proc, stops,
          timers, statusResets, requests, pending, wire, frameNo, scheduled,
          last>>

\* Groups of variables, for UNCHANGED.
uiVars    == <<recordingStatus, isLive, statusResets>>
domVars   == <<rawTranscription, rawInterimSpan, translatedContent>>
fieldVars == <<recognition, stream, processor, sourceNode, audioContext,
               outputAudioContext, outputGainNode, sessionPromise>>
objVars   == <<rec, tracks, ctxIn, ctxOut, proc>>
sendVars  == <<pending, wire, frameNo>>
constVars == <<app, env>>

\* ------------------------------------------------------- Mode resolution

IsTranslationModeNoInputCheck(inLang, outLang) == outLang # "none"

\* const isTranslationMode = out !== 'none' && out !== in
IsTranslationMode(inLang, outLang) ==
  outLang # "none" /\ outLang # inLang

\* The if / else-if / else chain choosing the system instruction text.  The
\* three texts are named after the plan they configure: the read-aloud text
\* ("You are a text-to-speech engine ... Do not translate"), the
\* listen-translate-speak text and the transcription-assistant text.
SystemInstruction(src, trans) ==
  IF src = "mic" /\ trans THEN "MicTranslate"
  ELSE IF src = "system" /\ trans THEN "SystemTranslate"
  ELSE "TranscribeOnly"

\* ------------------------------------------------------- Transcript logs
\* A child of the raw transcript element: a finalized segment or the interim
\* slot.  rawInterimSpan is the position of the interim node among the
\* children (0 when the field is null).

\* !text || !text.trim()
IsBlank(text) == \A k \in 1..Len(text) : text[k] = " "

InsertAt(s, pos, x) == SubSeq(s, 1, pos - 1) \o <<x>> \o SubSeq(s, pos, Len(s))

\* span.textContent = text + ' ' (VoiceNotesApp),
\* div.textContent = `${speaker}: ${text}` (GeminiLiveApp)
SegmentText(a, text) ==
  IF a = "VoiceNotesApp" THEN text \o <<" ">> ELSE <<"You: ">> \o text

SegmentNode(a, text) ==
  [kind |-> "segment", text |-> SegmentText(a, text), active |-> FALSE]

InterimNode == [kind |-> "interim", text |-> <<>>, active |-> FALSE]

\* ensureInterimSpan / ensureInterimContainer: create and append the slot
\* when the field holds none.
EnsureInterimSpan(d) ==
  IF d.span = 0
    THEN [dom |-> Append(d.dom, InterimNode), span |-> Len(d.dom) + 1]
    ELSE d

\* rawTranscription.innerHTML = ''; rawInterimSpan = null; ensureInterimSpan()
ResetDom == EnsureInterimSpan([dom |-> <<>>, span |-> 0])

AppendRawSegmentAfterInterim(a, d, text) ==
  IF a = "VoiceNotesApp" /\ IsBlank(text) THEN d
  ELSE [dom |-> Append(d.dom, SegmentNode(a, text)), span |-> d.span]

\* A segment that goes in front of every child of the raw log.
AppendRawSegmentFirst(a, d, text) ==
  IF a = "VoiceNotesApp" /\ IsBlank(text) THEN d
  ELSE [dom |-> <<SegmentNode(a, text)>> \o d.dom,
        span |-> IF d.span = 0 THEN 0 ELSE d.span + 1]

\* appendRawSegment (VoiceNotesApp): blank text is ignored, the span goes
\* before the interim span when there is one, else it is appended and the
\* interim span re-created.  appendTranscriptItem (GeminiLiveApp):
\* insertBefore(div, rawInterimDiv), which appends when the field is null.
AppendRawSegment(a, d, text) ==
  IF a = "VoiceNotesApp" /\ IsBlank(text) THEN d
  ELSE IF d.span # 0
    THEN [dom |-> InsertAt(d.dom, d.span, SegmentNode(a, text)),
          span |-> d.span + 1]
  ELSE IF a = "VoiceNotesApp"
    THEN EnsureInterimSpan([dom |-> Append(d.dom, SegmentNode(a, text)),
                            span |-> 0])
  ELSE [dom |-> Append(d.dom, SegmentNode(a, text)), span |-> 0]

UpdateInterimTextAppending(a, d, text) ==
  LET e == IF a = "VoiceNotesApp" THEN EnsureInterimSpan(d) ELSE d
  IN  IF e.span = 0 THEN e
      ELSE [e EXCEPT !.dom[e.span].text = @ \o text]

\* updateInterimText: the slot's textContent is assigned, not extended.
UpdateInterimText(a, d, text) ==
  LET e == IF a = "VoiceNotesApp" THEN EnsureInterimSpan(d) ELSE d
  IN  IF e.span = 0 THEN e
      ELSE [e EXCEPT !.dom[e.span].text = text]

SegmentPositions(dom) == {k \in 1..Len(dom) : dom[k].kind = "segment"}
InterimPositions(dom) == {k \in 1..Len(dom) : dom[k].kind = "interim"}

\* Number of finalized segments in the raw log.
SegmentCount(dom) == Cardinality(SegmentPositions(dom))

SetMax(S) == CHOOSE x \in S : \A y \in S : y <= x

\* highlightActiveSegment: the mark is removed from every segment and put
\* on the last one; nothing happens when there is no segment.
HighlightActiveSegment(dom) ==
  LET segs == SegmentPositions(dom)
  IN  IF segs = {} THEN dom
      ELSE [k \in 1..Len(dom) |->
              [dom[k] EXCEPT !.active = (k = SetMax(segs))]]

\* A log whose new entry goes in front of the entries it holds.
AppendTranslatedTextFirst(log, text) ==
  IF text = <<>> THEN log ELSE <<text>> \o log

\* appendTranslatedText: empty text is ignored, else one span is appended.
AppendTranslatedText(log, text) ==
  IF text = <<>> THEN log ELSE Append(log, text)

\* The loop of recognition.onresult over event.results[resultIndex..]:
\* final text and interim text are the concatenations of the transcripts.
RECURSIVE ConcatWhere(_, _)
ConcatWhere(results, isFinal) ==
  IF results = <<>> THEN <<>>
  ELSE (IF Head(results).isFinal = isFinal THEN Head(results).transcript
        ELSE <<>>) \o ConcatWhere(Tail(results), isFinal)

Results == [isFinal : BOOLEAN, transcript : Transcripts]
ResultEvents == UNION {[1..n -> Results] : n \in 1..MaxResults}


\* ------------------------------------------------------------ Init state
NoSess == [pc |-> "none", src |-> "mic", trans |-> FALSE,
           instr |-> "TranscribeOnly", stop |-> "no"]
NoConn == [st |-> "none", opened |-> FALSE, resolved |-> FALSE,
           wsAtOpen |-> FALSE, srcAtOpen |-> "mic", routed |-> FALSE]
NoCtx  == [state |-> "none", time |-> 0]
NoProc == [ctx |-> 0, handler |-> FALSE]

\* The state after construction.  VoiceNotesApp's constructor calls
\* createNewNote, which leaves the raw log holding its empty interim span;
\* GeminiLiveApp's constructor only looks up its elements.
Init ==
  /\ app \in Apps
  /\ env \in [webSpeech : BOOLEAN, apiKey : BOOLEAN]
  /\ app = "VoiceNotesApp" => env.apiKey   \* only GeminiLiveApp checks the key
  /\ selectedSourceType = "mic"
  /\ isRecording = FALSE
  /\ isWebSpeechActive = FALSE
  /\ nextStartTime = 0
  /\ recordingStatus = ""
  /\ isLive = FALSE
  /\ statusResets = 0
  /\ rawTranscription = IF app = "VoiceNotesApp" THEN ResetDom.dom ELSE <<>>
  /\ rawInterimSpan = IF app = "VoiceNotesApp" THEN ResetDom.span ELSE 0
  /\ translatedContent = <<>>
  /\ recognition = 0
  /\ stream = 0
  /\ processor = 0
  /\ sourceNode = 0
  /\ audioContext = 0
  /\ outputAudioContext = 0
  /\ outputGainNode = 0
  /\ sessionPromise = 0
  /\ nStarts = 0
  /\ sess = [i \in Starts |-> NoSess]
  /\ conn = [i \in Starts |-> NoConn]
  /\ rec = [i \in Starts |-> [st |-> "none", fatal |-> FALSE, failedIn |-> 0]]
  /\ tracks = [i \in Starts |-> "none"]
  /\ ctxIn = [i \in Starts |-> "none"]
  /\ ctxOut = [i \in Starts |-> NoCtx]
  /\ proc = [i \in Starts |-> NoProc]
  /\ stops = <<>>
  /\ timers = <<>>
  /\ requests = <<>>
  /\ pending = [i \in Starts |-> <<>>]
  /\ wire = [i \in Starts |-> <<>>]
  /\ frameNo = 0
  /\ scheduled = <<>>
  /\ last = [op |-> "init"]

\* -------------------------------------------------------- User interface

\* Source card click (VoiceNotesApp): this.selectedSourceType = card type.
\* Nothing in the handler looks at isRecording.
SelectSource(src) ==
  /\ app = "VoiceNotesApp"
  /\ selectedSourceType # src
  /\ selectedSourceType' = src
  /\ last' = [op |-> "selectSource", src |-> src]
  /\ UNCHANGED <<constVars, isRecording, isWebSpeechActive, nextStartTime,
                 uiVars, domVars, fieldVars, nStarts, sess, conn, objVars,
                 stops, timers, requests, sendVars, scheduled>>

\* New-note button (VoiceNotesApp): createNewNote empties both logs and
\* re-creates the interim span.
CreateNewNote ==
  /\ app = "VoiceNotesApp"
  /\ rawTranscription' = ResetDom.dom
  /\ rawInterimSpan' = ResetDom.span
  /\ translatedContent' = <<>>
  /\ last' = [op |-> "createNewNote"]
  /\ UNCHANGED <<constVars, selectedSourceType, isRecording,
                 isWebSpeechActive, nextStartTime, uiVars, fieldVars,
                 nStarts, sess, conn, objVars, stops, timers, requests,
                 sendVars, scheduled>>

\* ---------------------------------------------------------- Session start

\* The tail of startLiveSession, from outputGainNode = createGain() to
\* live.connect: it reads the fields as they are when it runs.  A null
\* output context, input context or stream, or a stream without an audio
\* track (trk is the table of track states when the tail runs), throws into
\* the catch block of startLiveSession.
ConnectThrows(strm, actx, octx, trk) ==
  \/ octx = 0
  \/ actx = 0
  \/ strm = 0
  \/ (strm # 0 /\ trk[strm] = "noaudio")

\* catch (error): isRecording = false; status = 'Error starting session'.
StartCatch(i, s) ==
  /\ isRecording' = FALSE
  /\ recordingStatus' = "Error starting session"
  /\ sess' = [s EXCEPT ![i].pc = "failed"]

StartConnect(i, s, strm, actx, octx, pr, trk) ==
  IF ConnectThrows(strm, actx, octx, trk)
    THEN /\ StartCatch(i, s)
         /\ proc' = pr
         /\ outputGainNode' = IF octx = 0 THEN outputGainNode ELSE octx
         /\ UNCHANGED <<sourceNode, processor, sessionPromise, conn>>
    ELSE /\ outputGainNode' = octx
         /\ sourceNode' = i
         /\ processor' = i
         /\ proc' = [pr EXCEPT ![i] = [ctx |-> actx, handler |-> FALSE]]
         /\ sessionPromise' = i
         /\ conn' = [conn EXCEPT ![i].st = "connecting"]
         /\ sess' = [s EXCEPT ![i].pc = "done"]
         /\ UNCHANGED <<isRecording, recordingStatus>>

\* toggleRecording: start when not recording, stop otherwise.  GeminiLiveApp
\* has no caller of startLiveSession in the file; it is driven the same way.
CanStart == ~isRecording /\ nStarts < MaxStarts

\* startLiveSession up to its first suspension, the request for the capture
\* stream.  inLang and outLang are the values of the two language selects,
\* choice the value of GeminiLiveApp's unified source select.
StartLiveSession(inLang, outLang, choice) ==
  LET i     == nStarts + 1
      src   == IF app = "VoiceNotesApp" THEN selectedSourceType
               ELSE IF choice = "system" THEN "system" ELSE "mic"
      trans == IsTranslationMode(inLang, outLang)
  IN
  /\ CanStart
  /\ nStarts' = i
  /\ last' = [op |-> "start", i |-> i, src |-> src, inLang |-> inLang,
              outLang |-> outLang,
              \* the reset at the top of start discards transcript content
              wiped |-> /\ ~(app = "GeminiLiveApp" /\ ~env.apiKey)
                        /\ (SegmentCount(rawTranscription) > 0
                            \/ translatedContent # <<>>)]
  /\ IF app = "GeminiLiveApp" /\ ~env.apiKey
       THEN \* await ensureApiKey() throws: the catch block runs
            /\ StartCatch(i, sess)
            /\ UNCHANGED <<selectedSourceType, isWebSpeechActive,
                           nextStartTime, domVars>>
       ELSE /\ isRecording' = TRUE
            /\ recordingStatus' = "Initializing Live Session..."
            /\ isWebSpeechActive' = FALSE
            /\ nextStartTime' = 0
            /\ selectedSourceType' = src
            /\ rawTranscription' = ResetDom.dom
            /\ rawInterimSpan' = ResetDom.span
            /\ translatedContent' = <<>>
            /\ sess' = [sess EXCEPT ![i] =
                          [pc |-> "media", src |-> src, trans |-> trans,
                           instr |-> SystemInstruction(src, trans),
                           stop |-> "no"]]
  /\ UNCHANGED <<constVars, isLive, statusResets, fieldVars, conn, objVars,
                 stops, timers, requests, sendVars, scheduled>>

Outcomes == {"granted", "noaudio", "denied", "failed"}

\* Outcomes of getDisplayMedia / getUserMedia.
MediaOutcomes(src) ==
  IF src = "system" THEN {"granted", "noaudio", "denied", "failed"}
  ELSE {"granted", "denied"}

\* startLiveSession resumes with the capture stream or with the rejection.
\* startThrows: recognition.start() throws; suspended: the new output
\* context is created suspended, so that resume() is awaited.
StartMedia(i, outcome, startThrows, suspended) ==
  LET src == sess[i].src
      refused == \/ outcome \in {"denied", "failed"}
                 \/ (outcome = "noaudio" /\ app = "GeminiLiveApp")
      newRec == src = "mic" /\ env.webSpeech
  IN
  /\ sess[i].pc = "media"
  /\ outcome \in MediaOutcomes(src)
  /\ last' = [op |-> "startMedia", i |-> i, outcome |-> outcome,
              startThrows |-> startThrows /\ newRec /\ ~refused]
  /\ IF refused
       THEN /\ isRecording' = FALSE
            /\ sess' = [sess EXCEPT ![i].pc = "failed"]
            /\ recordingStatus' =
                 IF app = "VoiceNotesApp"
                   THEN IF src = "system"
                          THEN "System audio permission denied."
                          ELSE "Error starting session"
                 ELSE IF src = "mic" THEN "Microphone permission denied."
                 ELSE IF outcome = "denied" THEN "Selection cancelled."
                 ELSE IF outcome = "noaudio"
                   THEN "No audio track selected. Did you forget to check 'Share Audio'?"
                 ELSE "System audio error."
            \* the granted stream without audio: its tracks are stopped and
            \* this.stream is set to null before the error is thrown
            /\ tracks' = IF outcome = "noaudio"
                           THEN [tracks EXCEPT ![i] = "stopped"] ELSE tracks
            /\ stream' = IF outcome = "noaudio" THEN 0 ELSE stream
            /\ statusResets' = IF app = "GeminiLiveApp" /\ src = "system"
                                 THEN statusResets + 1 ELSE statusResets
            /\ UNCHANGED <<isWebSpeechActive, recognition, rec, audioContext,
                           outputAudioContext, outputGainNode, ctxIn, ctxOut,
                           sourceNode, processor, sessionPromise, conn, proc>>
       ELSE /\ stream' = i
            /\ tracks' = [tracks EXCEPT ![i] =
                            IF outcome = "noaudio" THEN "noaudio" ELSE "live"]
            /\ IF newRec
                 THEN /\ recognition' = i
                      /\ rec' = [rec EXCEPT ![i].st =
                                   IF startThrows THEN "idle" ELSE "running"]
                      /\ isWebSpeechActive' = ~startThrows
                 ELSE UNCHANGED <<recognition, rec, isWebSpeechActive>>
            /\ audioContext' = i
            /\ ctxIn' = [ctxIn EXCEPT ![i] = "running"]
            /\ outputAudioContext' = i
            /\ ctxOut' = [ctxOut EXCEPT ![i] =
                            [state |-> IF suspended THEN "suspended"
                                       ELSE "running", time |-> 0]]
            /\ statusResets' = statusResets
            /\ IF suspended
                 THEN /\ sess' = [sess EXCEPT ![i].pc = "resume"]
                      /\ UNCHANGED <<isRecording, recordingStatus, sourceNode,
                                     processor, sessionPromise, conn, proc,
                                     outputGainNode>>
                 ELSE StartConnect(i, sess, i, i, i, proc, tracks')
  /\ UNCHANGED <<constVars, selectedSourceType, nextStartTime, isLive,
                 domVars, nStarts, stops, timers, requests, sendVars,
                 scheduled>>

\* startLiveSession resumes after await outputAudioContext.resume(): the
\* promise is rejected when that context was closed meanwhile.
StartResume(i) ==
  /\ sess[i].pc = "resume"
  /\ last' = [op |-> "startResume", i |-> i]
  /\ IF ctxOut[i].state \in {"closing", "closed"}
       THEN /\ StartCatch(i, sess)
            /\ UNCHANGED <<sourceNode, processor, sessionPromise, conn, proc,
                           ctxOut, outputGainNode>>
       ELSE /\ ctxOut' = [ctxOut EXCEPT ![i].state = "running"]
            /\ StartConnect(i, sess, stream, audioContext,
                            outputAudioContext, proc, tracks)
  /\ UNCHANGED <<constVars, selectedSourceType, isWebSpeechActive,
                 nextStartTime, isLive, statusResets, domVars, recognition,
                 stream, audioContext, outputAudioContext, nStarts, rec,
                 tracks, ctxIn, stops, timers, requests, sendVars, scheduled>>

\* setTimeout(() => { if (!isRecording) status = 'Ready to stream' }, 3000)
StatusReset ==
  /\ statusResets > 0
  /\ statusResets' = statusResets - 1
  /\ recordingStatus' = IF ~isRecording THEN "Ready to stream"
                        ELSE recordingStatus
  /\ last' = [op |-> "statusReset"]
  /\ UNCHANGED <<constVars, selectedSourceType, isRecording,
                 isWebSpeechActive, nextStartTime, isLive, domVars,
                 fieldVars, nStarts, sess, conn, objVars, stops, timers,
                 requests, sendVars, scheduled>>


\* ----------------------------------------------------------- Session stop

\* AudioContext.close() on a context already closed rejects; on one that is
\* still closing the outcome depends on the browser (rejects).
CloseRejects(state, rejects) ==
  state = "closed" \/ (state = "closing" /\ rejects)

\* The stopLiveSession invoked in session `of` has run to its end.
StopCompleted(s, of) == [s EXCEPT ![of].stop = "done"]

\* stopLiveSession from `if (this.outputAudioContext)` to its end, run on
\* the output-context table co, the suspended stops st and the session
\* table s, for the stop invoked in session `of`.
StopOutput(co, st, rejects, s, of) ==
  IF outputAudioContext # 0
    THEN IF CloseRejects(co[outputAudioContext].state, rejects)
           THEN \* await throws out of stopLiveSession
                /\ ctxOut' = co
                /\ stops' = st
                /\ sess' = s
                /\ UNCHANGED isLive
                /\ recordingStatus' = "Stopping..."
           ELSE /\ ctxOut' = [co EXCEPT ![outputAudioContext].state = "closing"]
                /\ stops' = Append(st, [pc |-> "closeOut",
                                        ctx |-> outputAudioContext,
                                        of |-> of])
                /\ sess' = s
                /\ UNCHANGED isLive
                /\ recordingStatus' = "Stopping..."
    ELSE /\ ctxOut' = co
         /\ stops' = st
         /\ isLive' = FALSE                \* stopLiveDisplay()
         /\ recordingStatus' = "Session Ended"
         /\ sess' = StopCompleted(s, of)

\* stopLiveSession (VoiceNotesApp) up to its first suspension.
StopLiveSession(rejects) ==
  LET invoked == [sess EXCEPT ![nStarts].stop = "invoked"] IN
  /\ app = "VoiceNotesApp"
  /\ isRecording
  /\ isRecording' = FALSE
  /\ isWebSpeechActive' = IF recognition # 0 THEN FALSE ELSE isWebSpeechActive
  /\ proc' = IF processor # 0
               THEN [proc EXCEPT ![processor].handler = FALSE] ELSE proc
  /\ processor' = 0
  /\ sourceNode' = 0
  /\ tracks' = IF stream # 0 THEN [tracks EXCEPT ![stream] = "stopped"]
               ELSE tracks
  /\ stream' = 0
  /\ IF audioContext # 0 /\ ctxIn[audioContext] # "closed"
       THEN /\ recordingStatus' = "Stopping..."
            /\ rejects => ctxIn[audioContext] = "closing"
            /\ IF CloseRejects(ctxIn[audioContext], rejects)
                 THEN UNCHANGED <<ctxIn, stops>>
                 ELSE /\ ctxIn' = [ctxIn EXCEPT ![audioContext] = "closing"]
                      /\ stops' = Append(stops, [pc |-> "closeIn",
                                                 ctx |-> audioContext,
                                                 of |-> nStarts])
            /\ sess' = invoked
            /\ UNCHANGED <<ctxOut, isLive>>
       ELSE /\ rejects => (outputAudioContext # 0
                           /\ ctxOut[outputAudioContext].state = "closing")
            /\ StopOutput(ctxOut, stops, rejects, invoked, nStarts)
            /\ UNCHANGED ctxIn
  /\ last' = [op |-> "stop", of |-> nStarts]
  /\ UNCHANGED <<constVars, selectedSourceType, nextStartTime, statusResets,
                 domVars, recognition, audioContext, outputAudioContext,
                 outputGainNode, sessionPromise, nStarts, conn, rec,
                 timers, requests, sendVars, scheduled>>

RemoveAt(s, k) == SubSeq(s, 1, k - 1) \o SubSeq(s, k + 1, Len(s))

\* stopLiveSession resumes after a close() it awaited.
StopResume(k, rejects) ==
  /\ k \in 1..Len(stops)
  /\ LET s == stops[k] IN
       IF s.pc = "closeIn"
         THEN /\ ctxIn' = [ctxIn EXCEPT ![s.ctx] = "closed"]
              /\ audioContext' = 0
              /\ rejects => (outputAudioContext # 0
                             /\ ctxOut[outputAudioContext].state = "closing")
              /\ StopOutput(ctxOut, RemoveAt(stops, k), rejects, sess, s.of)
              /\ UNCHANGED outputAudioContext
         ELSE /\ ~rejects
              /\ ctxOut' = [ctxOut EXCEPT ![s.ctx].state = "closed"]
              /\ outputAudioContext' = 0
              /\ stops' = RemoveAt(stops, k)
              /\ isLive' = FALSE
              /\ recordingStatus' = "Session Ended"
              /\ sess' = StopCompleted(sess, s.of)
              /\ UNCHANGED <<ctxIn, audioContext>>
  /\ last' = [op |-> "stopResume", of |-> stops[k].of]
  /\ UNCHANGED <<constVars, selectedSourceType, isRecording,
                 isWebSpeechActive, nextStartTime, statusResets, domVars,
                 recognition, stream, processor, sourceNode, outputGainNode,
                 sessionPromise, nStarts, conn, rec, tracks, proc,
                 timers, requests, sendVars, scheduled>>

\* ------------------------------------------------------- Duplex connection

\* onopen: const shouldStreamAudioToGemini = ...; GeminiLiveApp adds the
\* microphone fallback, read from the live isWebSpeechActive flag.
ShouldStreamAudioToGemini(i) ==
  \/ selectedSourceType = "system"
  \/ ~sess[i].trans
  \/ (app = "GeminiLiveApp" /\ selectedSourceType = "mic"
      /\ ~isWebSpeechActive)

\* callbacks.onopen of connection i.
OnOpen(i) ==
  LET install == /\ ShouldStreamAudioToGemini(i)
                 /\ sourceNode # 0 /\ processor # 0 /\ audioContext # 0
  IN
  /\ conn[i].st = "connecting"
  /\ recordingStatus' = "Live Session Active"
  /\ isLive' = TRUE                           \* startLiveDisplay()
  /\ proc' = IF install THEN [proc EXCEPT ![processor].handler = TRUE]
             ELSE proc
  /\ conn' = [conn EXCEPT ![i] = [@ EXCEPT !.st = "open", !.opened = TRUE,
                                  !.wsAtOpen = isWebSpeechActive,
                                  !.srcAtOpen = selectedSourceType,
                                  !.routed = install]]
  /\ last' = [op |-> "onopen", i |-> i, install |-> install]
  /\ UNCHANGED <<constVars, selectedSourceType, isRecording,
                 isWebSpeechActive, nextStartTime, statusResets, domVars,
                 fieldVars, nStarts, sess, rec, tracks, ctxIn, ctxOut,
                 stops, timers, requests, sendVars, scheduled>>

\* The connect promise of connection i resolves with the session object:
\* the sends that waited on it are issued, in the order they were made.
ConnResolve(i) ==
  /\ conn[i].opened
  /\ ~conn[i].resolved
  /\ conn' = [conn EXCEPT ![i].resolved = TRUE]
  /\ wire' = [wire EXCEPT ![i] = @ \o pending[i]]
  /\ pending' = [pending EXCEPT ![i] = <<>>]
  /\ last' = [op |-> "resolve", i |-> i]
  /\ UNCHANGED <<constVars, selectedSourceType, isRecording,
                 isWebSpeechActive, nextStartTime, uiVars, domVars,
                 fieldVars, nStarts, sess, objVars, stops, timers, requests,
                 frameNo, scheduled>>

\* stopLiveDisplay: VoiceNotesApp leaves the live display state;
\* GeminiLiveApp also sets isRecording = false.
StopLiveDisplay ==
  /\ isLive' = FALSE
  /\ isRecording' = IF app = "GeminiLiveApp" THEN FALSE ELSE isRecording

\* callbacks.onclose of connection i.
OnClose(i) ==
  /\ conn[i].st \in {"connecting", "open"}
  /\ conn' = [conn EXCEPT ![i].st = "closed"]
  /\ StopLiveDisplay
  /\ last' = [op |-> "onclose", i |-> i]
  /\ UNCHANGED <<constVars, selectedSourceType, isWebSpeechActive,
                 nextStartTime, recordingStatus, statusResets, domVars,
                 fieldVars, nStarts, sess, objVars, stops, timers, requests,
                 sendVars, scheduled>>

\* callbacks.onerror of connection i.
OnError(i) ==
  /\ conn[i].st \in {"connecting", "open"}
  /\ conn' = [conn EXCEPT ![i].st = "errored"]
  /\ recordingStatus' = "Connection Error"
  /\ StopLiveDisplay
  /\ last' = [op |-> "onerror", i |-> i]
  /\ UNCHANGED <<constVars, selectedSourceType, isWebSpeechActive,
                 nextStartTime, statusResets, domVars, fieldVars, nStarts,
                 sess, objVars, stops, timers, requests, sendVars, scheduled>>

\* A send that goes ahead of everything handed to the promise before it.
SendViaHead(p, w, item) ==
  IF sessionPromise = 0 THEN [pending |-> p, wire |-> w]
  ELSE IF conn[sessionPromise].resolved
    THEN [pending |-> p,
          wire |-> [w EXCEPT ![sessionPromise] = <<item>> \o @]]
  ELSE [pending |-> [p EXCEPT ![sessionPromise] = <<item>> \o @],
        wire |-> w]

\* this.sessionPromise.then(session => session.send... ): issued at once on
\* a resolved promise, deferred on a pending one, skipped when the field is
\* null.  Gives the new <<pending, wire>>.
SendVia(p, w, item) ==
  IF sessionPromise = 0 THEN [pending |-> p, wire |-> w]
  ELSE IF conn[sessionPromise].resolved
    THEN [pending |-> p,
          wire |-> [w EXCEPT ![sessionPromise] = Append(@, item)]]
  ELSE [pending |-> [p EXCEPT ![sessionPromise] = Append(@, item)],
        wire |-> w]

\* processor.onaudioprocess of processor p: one captured frame is quantized
\* and handed to the session promise.
OnAudioProcess(p) ==
  /\ proc[p].handler
  /\ proc[p].ctx # 0
  /\ ctxIn[proc[p].ctx] = "running"
  /\ frameNo < MaxFrames
  /\ frameNo' = frameNo + 1
  /\ LET r == SendVia(pending, wire,
                      [kind |-> "audio", n |-> frameNo + 1, proc |-> p])
     IN  pending' = r.pending /\ wire' = r.wire
  /\ last' = [op |-> "onaudioprocess", p |-> p]
  /\ UNCHANGED <<constVars, selectedSourceType, isRecording,
                 isWebSpeechActive, nextStartTime, uiVars, domVars,
                 fieldVars, nStarts, sess, conn, objVars, stops, timers,
                 requests, scheduled>>


\* ------------------------------------------------------ Playback scheduler

Max(a, b) == IF a >= b THEN a ELSE b

StartAtCursor(cursor, currentTime) == cursor

\* if (this.nextStartTime < currentTime) this.nextStartTime = currentTime;
\* source.start(this.nextStartTime)
StartAt(cursor, currentTime) ==
  IF cursor < currentTime THEN currentTime ELSE cursor

CursorAfterNoAdvance(startAt, duration) == startAt

\* this.nextStartTime += audioBuffer.duration
CursorAfter(startAt, duration) == startAt + duration

\* playAudioChunk scheduling a chunk whatever its decoding does.
ChunkScheduledUndecoded(decodes) ==
  /\ outputAudioContext # 0
  /\ outputGainNode # 0
  /\ outputGainNode = outputAudioContext

\* playAudioChunk returns early without an output context or gain node; a
\* chunk whose decoding throws, or whose source cannot be connected to a
\* gain node of another context, is dropped in the catch block before the
\* cursor is touched.
ChunkScheduled(decodes) ==
  /\ outputAudioContext # 0
  /\ outputGainNode # 0
  /\ decodes
  /\ outputGainNode = outputAudioContext

\* The chunk record source.start leaves behind: the context, the start time
\* handed to source.start, the buffer's duration, and what the scheduler
\* read: the context's currentTime, the cursor, the number of cursor resets.
ChunkRecord(duration) ==
  LET now == ctxOut[outputAudioContext].time IN
  [ctx |-> outputAudioContext,
   start |-> StartAt(nextStartTime, now),
   dur |-> duration,
   now |-> now,
   cursor |-> nextStartTime,
   epoch |-> nStarts,
   running |-> ctxOut[outputAudioContext].state = "running"]

\* ------------------------------------------------------- Inbound messages
Messages ==
  [audio : 0..MaxDur, decodes : BOOLEAN,
   inTr : CloudTexts \cup {<<>>}, outTr : CloudTexts \cup {<<>>},
   part : CloudTexts \cup {<<>>}]

\* Step 2 of handleLiveMessage on the raw log d.
MessageRaw(d, msg) ==
  IF selectedSourceType = "system" /\ msg.inTr # <<>>
    THEN AppendRawSegment(app, d, msg.inTr) ELSE d

\* Step 2 of handleLiveMessage on the translated log: the output
\* transcription, else the first text part of the model turn.
MessageTranslated(log, msg) ==
  IF selectedSourceType # "system" THEN log
  ELSE IF msg.outTr # <<>> THEN AppendTranslatedText(log, msg.outTr)
  ELSE AppendTranslatedText(log, msg.part)

\* callbacks.onmessage of connection i: handleLiveMessage(message,
\* isTranslationMode) of VoiceNotesApp; GeminiLiveApp only logs the message.
\* handleLiveMessage awaits playAudioChunk, which awaits decodeAudioData;
\* decodeAudioData awaits nothing, so every promise awaited here is settled
\* by synchronous code and the continuations run as microtasks of the task
\* that delivered the message, before any other callback: one step.
OnMessage(i, msg) ==
  LET play == msg.audio > 0 /\ ChunkScheduled(msg.decodes)
      d0   == [dom |-> rawTranscription, span |-> rawInterimSpan]
      d1   == IF msg.audio > 0 /\ sess[i].trans
                 /\ selectedSourceType = "system"
                THEN [d0 EXCEPT !.dom = HighlightActiveSegment(d0.dom)]
                ELSE d0
      d2   == MessageRaw(d1, msg)
  IN
  /\ conn[i].st = "open"
  /\ msg.audio = 0 => msg.decodes
  /\ last' = [op |-> "onmessage", i |-> i, msg |-> msg, played |-> play,
              \* the step before this one was a message whose chunk was
              \* dropped
              afterDrop |-> /\ last.op = "onmessage"
                            /\ last.msg.audio > 0 /\ ~last.played]
  /\ IF app = "GeminiLiveApp"
       THEN UNCHANGED <<nextStartTime, scheduled, domVars>>
       ELSE /\ IF play
                 THEN /\ Len(scheduled) < MaxChunks
                      /\ scheduled' = Append(scheduled, ChunkRecord(msg.audio))
                      /\ nextStartTime' =
                           CursorAfter(ChunkRecord(msg.audio).start, msg.audio)
                 ELSE UNCHANGED <<nextStartTime, scheduled>>
            /\ Cardinality(SegmentPositions(d2.dom)) <= MaxSegments
            /\ rawTranscription' = d2.dom
            /\ rawInterimSpan' = d2.span
            /\ translatedContent' = MessageTranslated(translatedContent, msg)
            /\ Len(translatedContent') <= MaxTranslated
  /\ UNCHANGED <<constVars, selectedSourceType, isRecording,
                 isWebSpeechActive, uiVars, fieldVars, nStarts, sess, conn,
                 objVars, stops, timers, requests, sendVars>>

\* The hardware clock of every running output context advances.
Tick ==
  /\ \E i \in Starts : ctxOut[i].state = "running"
  /\ \A i \in Starts : ctxOut[i].time < MaxTime
  /\ ctxOut' = [i \in Starts |->
                  IF ctxOut[i].state = "running"
                    THEN [ctxOut[i] EXCEPT !.time = @ + 1] ELSE ctxOut[i]]
  /\ last' = [op |-> "tick"]
  /\ UNCHANGED <<constVars, selectedSourceType, isRecording,
                 isWebSpeechActive, nextStartTime, uiVars, domVars,
                 fieldVars, nStarts, sess, conn, rec, tracks, ctxIn, proc,
                 stops, timers, requests, sendVars, scheduled>>

\* ------------------------------------------------------- Local recognizer
\* event.error === 'aborted' || event.error === 'not-allowed'
Fatal == {"aborted", "not-allowed"}

\* recognition.onresult of recognizer r, created by start invocation r.
RecognitionOnResult(r, ev) ==
  LET final   == ConcatWhere(ev, TRUE)
      interim == ConcatWhere(ev, FALSE)
      d0 == [dom |-> rawTranscription, span |-> rawInterimSpan]
      d1 == IF final # <<>> THEN AppendRawSegment(app, d0, final) ELSE d0
      d2 == UpdateInterimText(app, d1, interim)
      translate == /\ final # <<>>
                   /\ selectedSourceType = "mic" /\ sess[r].trans
                   /\ app = "VoiceNotesApp"
  IN
  /\ rec[r].st = "running"
  /\ Cardinality(SegmentPositions(d2.dom)) <= MaxSegments
  /\ rawTranscription' = d2.dom
  /\ rawInterimSpan' = d2.span
  /\ IF translate
       THEN /\ Len(requests) < MaxRequests
            /\ requests' = Append(requests,
                                  [text |-> final, from |-> r,
                                   \* whether stop had been invoked on the
                                   \* recognizer's session at the request
                                   late |-> sess[r].stop # "no"])
       ELSE UNCHANGED requests
  /\ last' = [op |-> "onresult", r |-> r, final |-> final,
              interim |-> interim, handed |-> translate]
  /\ UNCHANGED <<constVars, selectedSourceType, isRecording,
                 isWebSpeechActive, nextStartTime, uiVars, translatedContent,
                 fieldVars, nStarts, sess, conn, objVars, stops, timers,
                 sendVars, scheduled>>

\* recognition.onerror of recognizer r.
RecognitionOnError(r, code) ==
  /\ rec[r].st = "running"
  /\ isWebSpeechActive' = IF code \in Fatal THEN FALSE ELSE isWebSpeechActive
  /\ rec' = [rec EXCEPT ![r].fatal = @ \/ code \in Fatal]
  /\ last' = [op |-> "recerror", r |-> r, code |-> code,
              was |-> isWebSpeechActive]
  /\ UNCHANGED <<constVars, selectedSourceType, isRecording, nextStartTime,
                 uiVars, domVars, fieldVars, nStarts, sess, conn, tracks,
                 ctxIn, ctxOut, proc, stops, timers, requests, sendVars,
                 scheduled>>

\* if (this.isRecording && this.isWebSpeechActive), read in onend and read
\* again when the timer fires.
RestartWanted == isRecording /\ isWebSpeechActive

\* recognition.onend of recognizer r: the recognizer has stopped; a restart
\* timer is set when the session is recording and the adapter is active.
RecognitionOnEnd(r) ==
  /\ rec[r].st = "running"
  /\ rec' = [rec EXCEPT ![r].st = "idle"]
  /\ IF RestartWanted
       THEN Len(timers) < MaxTimers /\ timers' = Append(timers, r)
       ELSE UNCHANGED timers
  /\ last' = [op |-> "onend", r |-> r, timer |-> RestartWanted]
  /\ UNCHANGED <<constVars, selectedSourceType, isRecording,
                 isWebSpeechActive, nextStartTime, uiVars, domVars,
                 fieldVars, nStarts, sess, conn, tracks, ctxIn, ctxOut, proc,
                 stops, requests, sendVars, scheduled>>

\* The setTimeout callback of onend, 100 ms later: this.recognition.start()
\* is called when both flags still hold.  start() throws on a recognizer
\* that is already started (and may throw for the browser's own reasons,
\* throws); the catch block then clears isWebSpeechActive.
RestartTimer(throws) ==
  LET call   == RestartWanted
      failed == call /\ (recognition = 0 \/ rec[recognition].st = "running"
                         \/ throws)
  IN
  /\ timers # <<>>
  /\ timers' = Tail(timers)
  /\ throws => (call /\ recognition # 0 /\ rec[recognition].st # "running")
  /\ rec' = IF call /\ ~failed
              THEN [rec EXCEPT ![recognition].st = "running"]
            ELSE IF failed /\ recognition # 0
              THEN [rec EXCEPT ![recognition].failedIn = nStarts]
            ELSE rec
  /\ isWebSpeechActive' = IF failed THEN FALSE ELSE isWebSpeechActive
  /\ last' = [op |-> "timer", from |-> Head(timers), called |-> call,
              target |-> recognition,
              failed |-> failed, recording |-> isRecording,
              active |-> isWebSpeechActive]
  /\ UNCHANGED <<constVars, selectedSourceType, isRecording, nextStartTime,
                 uiVars, domVars, fieldVars, nStarts, sess, conn, tracks,
                 ctxIn, ctxOut, proc, stops, requests, sendVars, scheduled>>

\* ------------------------------------------------------ Translation client
\* Outcomes of generateContent: a translation, a response of white space
\* only, a rejected request.
TranslationOutcomes == {"ok", "blank", "throws"}

\* String.prototype.trim
RECURSIVE Trim(_)
Trim(text) ==
  IF text = <<>> THEN <<>>
  ELSE IF Head(text) = " " THEN Trim(Tail(text))
  ELSE IF text[Len(text)] = " " THEN Trim(SubSeq(text, 1, Len(text) - 1))
  ELSE text

\* translateTextWithFlash without the trim of the response text.
TranslateTextWithFlashNoTrim(text, outcome) ==
  IF outcome = "throws" THEN <<>>
  ELSE IF outcome = "ok" THEN <<"T">> \o text ELSE <<" ">>

\* translateTextWithFlash: the trimmed response text, "" when the request
\* throws.  The response to text t is written <<"T">> \o t.
TranslateTextWithFlash(text, outcome) ==
  IF outcome = "throws" THEN <<>>
  ELSE Trim(IF outcome = "ok" THEN <<"T">> \o text ELSE <<" ">>)

\* handleTranslationAndTTS resumes with the translation of request k.
TranslationReturns(k, outcome) ==
  LET translatedText == TranslateTextWithFlash(requests[k].text, outcome)
      r == SendVia(pending, wire, [kind |-> "text", text |-> translatedText,
                                   endOfTurn |-> TRUE])
  IN
  /\ k \in 1..Len(requests)
  /\ requests' = RemoveAt(requests, k)
  /\ IF translatedText = <<>>
       THEN UNCHANGED <<domVars, sendVars>>
       ELSE /\ Len(translatedContent) < MaxTranslated
            /\ translatedContent' =
                 AppendTranslatedText(translatedContent, translatedText)
            /\ rawTranscription' = HighlightActiveSegment(rawTranscription)
            /\ pending' = r.pending
            /\ wire' = r.wire
            /\ UNCHANGED <<rawInterimSpan, frameNo>>
  /\ last' = [op |-> "translated", text |-> translatedText,
              outcome |-> outcome, from |-> requests[k].from,
              late |-> requests[k].late, to |-> sessionPromise]
  /\ UNCHANGED <<constVars, selectedSourceType, isRecording,
                 isWebSpeechActive, nextStartTime, uiVars, fieldVars,
                 nStarts, sess, conn, objVars, stops, timers, scheduled>>

\* ------------------------------------------------------------ Specification
\* The user's controls and the suspended steps of start and stop.  The
\* language selects range over IL and OL, the source cards that can be
\* clicked over Srcs; Susp says whether a new output context may come up
\* suspended, Rej whether close() on a closing context may reject.
Starting(IL, OL, Outs, Thr, Susp, N) ==
  \/ \E inLang \in IL, outLang \in OL, choice \in {"system", "default"} :
       /\ app = "VoiceNotesApp" => choice = "default"
       /\ nStarts < N
       /\ StartLiveSession(inLang, outLang, choice)
  \/ \E i \in Starts, outcome \in Outs, startThrows \in Thr,
        suspended \in Susp :
       StartMedia(i, outcome, startThrows, suspended)

Stopping(Rej) ==
  \/ \E rejects \in Rej : StopLiveSession(rejects)
  \/ \E k \in 1..MaxStarts, rejects \in Rej : StopResume(k, rejects)

Lifecycle(IL, OL, Srcs, Susp, Rej, N) ==
  \/ \E src \in Srcs : SelectSource(src)
  \/ Starting(IL, OL, Outcomes, BOOLEAN, Susp, N)
  \/ Stopping(Rej)

\* The callbacks of the duplex connection other than onmessage.
Connection ==
  \/ \E i \in Starts : OnOpen(i)
  \/ \E i \in Starts : ConnResolve(i)
  \/ \E i \in Starts : OnClose(i)
  \/ \E i \in Starts : OnError(i)

\* The events of the local recognizer other than onresult.
Recognizer ==
  \/ \E r \in Starts, code \in ErrorCodes : RecognitionOnError(r, code)
  \/ \E r \in Starts : RecognitionOnEnd(r)
  \/ \E throws \in BOOLEAN : RestartTimer(throws)

\* Two language pairs, one with translation active and one without.
SomeIn  == {"en-US"}
SomeOut == {"none", "es"}

\* Every handler, every input.
Next ==
  \/ Lifecycle(InputLanguages, OutputLanguages, Sources, BOOLEAN, BOOLEAN,
               MaxStarts)
  \/ \E i \in Starts : StartResume(i)
  \/ StatusReset
  \/ CreateNewNote
  \/ Connection
  \/ \E p \in Starts : OnAudioProcess(p)
  \/ \E i \in Starts, msg \in Messages : OnMessage(i, msg)
  \/ Tick
  \/ \E r \in Starts, ev \in ResultEvents : RecognitionOnResult(r, ev)
  \/ Recognizer
  \/ \E k \in 1..MaxRequests, outcome \in TranslationOutcomes :
       TranslationReturns(k, outcome)

Spec == Init /\ [][Next]_vars

InitV == Init /\ app = "VoiceNotesApp" /\ env.webSpeech

\* Mode resolution: session start and stop over every language pair.
NextPlan ==
  \/ Lifecycle(InputLanguages, OutputLanguages, Sources, {FALSE}, {FALSE},
               MaxStarts)
  \/ StatusReset
SpecPlan == Init /\ [][NextPlan]_vars

\* Connection open and audio routing in one session: start, stop, the
\* connection callbacks, the capture callback and the recognizer's error,
\* end and restart events.
NextOpen ==
  \/ Lifecycle(SomeIn, SomeOut, Sources, {FALSE}, {FALSE}, OneSession)
  \/ StatusReset
  \/ Connection
  \/ \E p \in Starts : OnAudioProcess(p)
  \/ Recognizer
SpecOpen == Init /\ [][NextOpen]_vars

\* ------------------------------------------------------------------ Claims

\* C1: at session start the instruction is chosen by the priority table
\* over (capture source, translationActive), with translationActive holding
\* exactly when the output language is neither "none" nor the selected input
\* language: microphone + active gives the read-aloud instruction, system
\* audio + active the listen-translate-speak instruction, anything else the
\* transcribe-only instruction; one of the three is always selected.
C1_PlanTable ==
  (last.op = "start" /\ sess[last.i].pc = "media") =>
    LET translationActive == last.outLang \notin {"none", last.inLang}
        plan == sess[last.i]
    IN  /\ plan.trans = translationActive
        /\ plan.instr \in {"MicTranslate", "SystemTranslate", "TranscribeOnly"}
        /\ (last.src = "mic" /\ translationActive)
             => plan.instr = "MicTranslate"
        /\ (last.src = "system" /\ translationActive)
             => plan.instr = "SystemTranslate"
        /\ ~translationActive => plan.instr = "TranscribeOnly"

\* A start with the output language equal to the input language, which
\* selects the transcribe-only instruction although a language is chosen.
C1_Witness ==
  /\ last.op = "start" /\ sess[last.i].pc = "media"
  /\ last.outLang = last.inLang
  /\ sess[last.i].instr = "TranscribeOnly"

\* The audio items handed to connection i, delivered or still waiting for
\* the connect promise.
AudioSent(i) ==
  {k \in 1..Len(wire[i]) : wire[i][k].kind = "audio"}
    \cup {k \in 1..Len(pending[i]) : pending[i][k].kind = "audio"}

\* C2: when the connection of a session opens, forwarding of captured
\* frames begins only if the session's routing policy calls for it (its
\* source is system audio, or translation is not active, or it is a
\* microphone session whose recognizer is not active at open); and a
\* microphone session with translation active whose recognizer is active at
\* open never has a captured frame sent on its connection.
C2_ForwardOnlyPerPolicy ==
  \A i \in Starts :
    /\ conn[i].routed =>
         \/ sess[i].src = "system"
         \/ ~sess[i].trans
         \/ (sess[i].src = "mic" /\ ~conn[i].wsAtOpen)
    /\ (sess[i].src = "mic" /\ sess[i].trans /\ conn[i].opened
        /\ conn[i].wsAtOpen) => AudioSent(i) = {}

\* C3: in a microphone session with translation active, frames are
\* forwarded from the open of the connection exactly when the recognizer
\* is not active at that moment (it was unavailable or its start threw).
C3_MicFallbackAtOpen ==
  \A i \in Starts :
    (conn[i].opened /\ sess[i].src = "mic" /\ sess[i].trans
     /\ conn[i].srcAtOpen = "mic" /\ last.op = "onopen" /\ last.i = i)
      => (conn[i].routed <=> ~conn[i].wsAtOpen)

\* ---------------------------------------------------------------- Playback
\* Playback in VoiceNotesApp: microphone sessions with translation, started
\* and stopped in every interleaving with the suspended steps of start and
\* stop, whose connections deliver audio chunks while the clock advances.
AudioMessages ==
  {msg \in Messages : /\ msg.audio > 0
                      /\ msg.inTr = <<>> /\ msg.outTr = <<>>
                      /\ msg.part = <<>>}

NextPlay ==
  \/ Starting(SomeIn, {"es"}, {"granted"}, {FALSE}, {FALSE}, MaxStarts)
  \/ Stopping({FALSE})
  \/ \E i \in Starts : OnOpen(i)
  \/ \E i \in Starts, msg \in AudioMessages :
       Len(scheduled) < PlayChunks /\ OnMessage(i, msg)
  \/ Tick
SpecPlay == InitV /\ [][NextPlay]_vars

\* Playback in one session of VoiceNotesApp, with up to MaxChunks chunks.
NextGapless ==
  \/ Starting(SomeIn, {"es"}, {"granted"}, {FALSE}, {FALSE}, OneSession)
  \/ Stopping({FALSE})
  \/ \E i \in Starts : OnOpen(i)
  \/ \E i \in Starts, msg \in AudioMessages : OnMessage(i, msg)
  \/ Tick
SpecGapless == InitV /\ [][NextGapless]_vars

\* The chunk scheduled by the step just taken.
LastChunk == scheduled[Len(scheduled)]

\* C4: a chunk that playAudioChunk has just scheduled starts at the larger
\* of the cursor and the output context's current time, both as they were
\* when it was scheduled, and the cursor is now that start time plus the
\* chunk's duration.
C4_StartAndCursor ==
  (last.op = "onmessage" /\ last.played) =>
    /\ LastChunk.dur = last.msg.audio
    /\ LastChunk.now = ctxOut[LastChunk.ctx].time
    /\ LastChunk.start = Max(LastChunk.cursor, LastChunk.now)
    /\ nextStartTime = LastChunk.start + LastChunk.dur

\* A second chunk scheduled after the clock has passed the cursor.
C4_Witness ==
  /\ last.op = "onmessage" /\ last.played
  /\ Len(scheduled) = 2
  /\ LastChunk.cursor > 0
  /\ LastChunk.now > LastChunk.cursor
  /\ nextStartTime = LastChunk.now + LastChunk.dur

\* The chunks scheduled between start invocation e and the next one.
EpochChunks(e) == SelectSeq(scheduled, LAMBDA c : c.epoch = e)

RECURSIVE DurSum(_, _)
DurSum(s, n) == IF n = 0 THEN 0 ELSE s[n].dur + DurSum(s, n - 1)

\* C5: among the chunks scheduled in one session, as long as no chunk after
\* the first is scheduled at a current time later than the cursor, chunk k
\* starts at the first chunk's start time plus the durations of chunks
\* 1..k-1.
C5_Gapless ==
  \A e \in Starts :
    LET s == EpochChunks(e) IN
    \A k \in 1..Len(s) :
      (\A j \in 2..k : s[j].now <= s[j].cursor)
        => s[k].start = s[1].start + DurSum(s, k - 1)

\* Three chunks of one session, none late after the first, of different
\* durations, the first one starting after time 0.
C5_Witness ==
  \E e \in Starts :
    LET s == EpochChunks(e) IN
    /\ Len(s) = 3
    /\ \A j \in 2..3 : s[j].now <= s[j].cursor
    /\ s[1].start > 0
    /\ s[1].dur # s[2].dur
    /\ s[3].start = s[1].start + s[1].dur + s[2].dur

\* C6: whatever the interleaving of inbound audio with session starts and
\* stops, no chunk is scheduled to start before the current time of its
\* output context, and a chunk scheduled on a running context starts at or
\* after the end of every chunk scheduled before it on that context.
C6_NoPastNoOverlap ==
  \A k \in 1..Len(scheduled) :
    /\ scheduled[k].start >= scheduled[k].now
    /\ \A j \in 1..(k - 1) :
         (scheduled[j].ctx = scheduled[k].ctx /\ scheduled[j].running
          /\ scheduled[k].running)
           => scheduled[k].start >= scheduled[j].start + scheduled[j].dur

\* -------------------------------------------------------------- Transcript
\* The raw transcript of both classes over two sessions: the source cards,
\* start and stop, the new-note button, inbound input transcriptions and
\* recognizer results without translation.
TextMessages ==
  {msg \in Messages : /\ msg.audio = 0 /\ msg.decodes
                      /\ msg.outTr = <<>> /\ msg.part = <<>>}

\* Events of one result, and a final result followed by an interim one.
SomeEvents ==
  {ev \in ResultEvents :
     Len(ev) = 1 \/ (ev[1].isFinal /\ ~ev[2].isFinal
                     /\ ev[1].transcript = ev[2].transcript)}

NextTranscript ==
  \/ SelectSource("system")
  \/ Starting(SomeIn, {"none"}, {"granted"}, {FALSE}, {FALSE}, MaxStarts)
  \/ Stopping({FALSE})
  \/ CreateNewNote
  \/ \E i \in Starts : OnOpen(i)
  \/ \E i \in Starts, msg \in TextMessages : OnMessage(i, msg)
  \/ \E r \in Starts, ev \in SomeEvents : RecognitionOnResult(r, ev)
SpecTranscript == Init /\ [][NextTranscript]_vars

\* The texts of the finalized segments of a raw transcript, in order.
RECURSIVE Finalized(_)
Finalized(dom) ==
  IF dom = <<>> THEN <<>>
  ELSE (IF Head(dom).kind = "segment" THEN <<Head(dom).text>> ELSE <<>>)
         \o Finalized(Tail(dom))

\* The content of the interim slot (empty when there is no slot).
InterimText(dom, span) == IF span = 0 THEN <<>> ELSE dom[span].text

\* C7 as stated: every result event that carries final text and no interim
\* text appends that text as the last finalized entry and leaves the
\* interim slot empty.
C7_FinalAlwaysAppends ==
  [][(last'.op = "onresult" /\ last'.final # <<>> /\ last'.interim = <<>>)
       => /\ Finalized(rawTranscription') =
               Append(Finalized(rawTranscription),
                      SegmentText(app, last'.final))
          /\ InterimText(rawTranscription', rawInterimSpan') = <<>>]_vars

\* C7 amended: a result event whose final text VoiceNotesApp does not
\* discard as blank appends exactly one finalized entry, the rendering of
\* that text, after the entries already there; a blank final text in
\* VoiceNotesApp appends nothing; in both cases the interim slot then holds
\* the event's interim text, so it is empty when the event carries none.
C7_FinalAppendsUnlessBlank ==
  [][(last'.op = "onresult" /\ last'.final # <<>>)
       => /\ Finalized(rawTranscription') =
               IF app = "VoiceNotesApp" /\ IsBlank(last'.final)
                 THEN Finalized(rawTranscription)
                 ELSE Append(Finalized(rawTranscription),
                             SegmentText(app, last'.final))
          /\ InterimText(rawTranscription', rawInterimSpan') = last'.interim
          /\ rawInterimSpan' = Len(rawTranscription')]_vars

\* A result carrying only the final text "ab" has been appended as the
\* second finalized entry and the interim slot is empty.
C7_Witness ==
  /\ last.op = "onresult"
  /\ last.final = <<"a", "b">> /\ last.interim = <<>>
  /\ Len(Finalized(rawTranscription)) = 2
  /\ Finalized(rawTranscription)[2] = SegmentText(app, <<"a", "b">>)
  /\ InterimText(rawTranscription, rawInterimSpan) = <<>>

\* C8: while a session is active the raw transcript holds exactly one
\* interim slot, it is the last child, after every finalized segment, and
\* the field refers to it; after a result event the slot holds that event's
\* interim text and nothing of what it held before.
C8_OneInterimSlotLast ==
  /\ isRecording =>
       /\ InterimPositions(rawTranscription) = {Len(rawTranscription)}
       /\ rawInterimSpan = Len(rawTranscription)
  /\ last.op = "onresult" =>
       /\ rawInterimSpan # 0
       /\ rawTranscription[rawInterimSpan].text = last.interim

\* In a second session, two finalized segments followed by the slot, which
\* an interim update has just filled.
C8_Witness ==
  /\ isRecording /\ nStarts = MaxStarts
  /\ last.op = "onresult" /\ last.final = <<>> /\ last.interim # <<>>
  /\ Cardinality(SegmentPositions(rawTranscription)) = 2
  /\ rawTranscription[Len(rawTranscription)].text = last.interim

\* -------------------------------------------------------------- Recognizer
\* The local recognizer of both classes over two microphone sessions: start
\* and stop with their suspended steps, the close of the connection (which
\* ends GeminiLiveApp's recording), and the recognizer's error, end and
\* restart-timer events.
NextRecog ==
  \/ Starting(SomeIn, {"none"}, {"granted"}, BOOLEAN, {FALSE}, MaxStarts)
  \/ Stopping({FALSE})
  \/ \E i \in Starts : OnClose(i)
  \/ Recognizer
SpecRecog == Init /\ [][NextRecog]_vars

\* C9: once the recognizer of the current session has reported a fatal
\* error ("not-allowed" or "aborted") the active flag is false until the
\* next session is started, and a restart timer set by an onend of a
\* recognizer that has reported a fatal error never calls start; an error
\* with any other code leaves the flag as it was.
C9_FatalDisables ==
  /\ (nStarts > 0 /\ rec[Max(nStarts, 1)].fatal) => ~isWebSpeechActive
  /\ (last.op = "timer" /\ last.called) => ~rec[last.from].fatal
  /\ (last.op = "recerror" /\ last.code \notin Fatal)
       => isWebSpeechActive = last.was

\* C10: a restart timer is set by onend exactly when the session is
\* recording and the adapter is active; when it fires, start is called
\* exactly when both flags hold then, and it is called on the recognizer
\* that ended.
C10_RestartOnEnd ==
  /\ last.op = "timer" =>
       /\ last.called <=> (last.recording /\ last.active)
       /\ last.called => last.target = last.from
  /\ last.op = "onend" =>
       (last.timer <=> (isRecording /\ isWebSpeechActive))

\* C11: once a restart attempt has failed in the current session (start
\* threw in the timer callback), the active flag is false and no timer
\* callback calls start again before the next session is started.
C11_NoRestartAfterFailedRestart ==
  [][((\E r \in Starts : rec[r].failedIn = nStarts) /\ nStarts' = nStarts)
       => /\ ~(last'.op = "timer" /\ last'.called)
          /\ (last.op = "timer" /\ last.failed) => ~isWebSpeechActive]_vars


\* Finals a translation session may carry.
TranslateFinals == 1

\* The result event used for translation: one final result "ab".
OneFinal == {<<[isFinal |-> TRUE, transcript |-> <<"a", "b">>]>>}

\* Both classes in a browser with speech recognition and an API key.
InitReady == Init /\ env.webSpeech /\ env.apiKey

\* Translation pipeline: microphone sessions with translation to Spanish, an
\* output context that may come up suspended (so that start awaits resume()
\* between starting the recognizer and connecting), final recognizer
\* results and the answers of the translation client, over two sessions.
NextTranslate ==
  \/ Starting(SomeIn, {"es"}, {"granted"}, {FALSE}, BOOLEAN, MaxStarts)
  \/ \E i \in Starts : StartResume(i)
  \/ Stopping({FALSE})
  \/ \E i \in Starts : OnOpen(i) \/ ConnResolve(i)
  \/ \E r \in Starts, ev \in OneFinal :
       /\ Cardinality(SegmentPositions(rawTranscription)) < TranslateFinals
       /\ RecognitionOnResult(r, ev)
  \/ \E k \in 1..MaxRequests, outcome \in TranslationOutcomes :
       TranslationReturns(k, outcome)
SpecTranslate == InitReady /\ [][NextTranslate]_vars

\* C12: in a session started on the microphone with translation active,
\* every recognizer result with final text starts a translation request, and
\* a translation that comes back non-empty is the last entry of the
\* translated log and has been handed to the session promise as a text turn
\* with endOfTurn set.
C12_FinalTranslatedAndSpoken ==
  /\ (/\ last.op = "onresult" /\ last.final # <<>>
      /\ sess[last.r].src = "mic" /\ sess[last.r].trans) => last.handed
  /\ (last.op = "translated" /\ last.text # <<>>)
       => /\ translatedContent # <<>>
          /\ translatedContent[Len(translatedContent)] = last.text
          /\ last.to # 0
          /\ LET q == IF conn[last.to].resolved THEN wire[last.to]
                      ELSE pending[last.to]
             IN  /\ q # <<>>
                 /\ q[Len(q)] = [kind |-> "text", text |-> last.text,
                                 endOfTurn |-> TRUE]


\* C13: a translation request that throws or answers with white space only
\* yields the empty text; the step that receives it leaves the translated
\* log, the transcript (no segment is highlighted) and the sends of every
\* connection as they were, and ends the request without issuing another.
C13_EmptyTranslationIsDropped ==
  [][(last'.op = "translated" /\ last'.outcome # "ok")
       => /\ last'.text = <<>>
          /\ UNCHANGED <<translatedContent, rawTranscription, rawInterimSpan,
                         pending, wire>>
          /\ Len(requests') = Len(requests) - 1]_vars

\* A request that threw has returned in a session that shows a segment and
\* has a session promise to send to.
C13_Witness ==
  /\ last.op = "translated" /\ last.outcome = "throws"
  /\ SegmentPositions(rawTranscription) # {}
  /\ last.to # 0


\* C14: a send made while the connect promise is pending waits in that
\* promise and is on the wire of the same connection once it has resolved;
\* the speak turn of a final recognized by the recognizer of session r is
\* handed to connection r and to no other, also when the translation
\* returns before connect has been called.
C14_SendsReachOwnConnection ==
  /\ \A i \in Starts : conn[i].resolved => pending[i] = <<>>
  /\ (last.op = "translated" /\ last.text # <<>>)
       => /\ last.to = last.from
          /\ LET q == pending[last.from] \o wire[last.from]
             IN  \E n \in 1..Len(q) : q[n].kind = "text"
                                      /\ q[n].text = last.text


\* C15: when connection i has closed or errored, the callback has released
\* the reference to it (sessionPromise no longer holds it) and has run the
\* session-end display transition, and no frame captured afterwards is
\* handed to a closed or errored connection.
C15_CloseStopsForwarding ==
  /\ last.op \in {"onclose", "onerror"}
       => (sessionPromise # last.i /\ ~isLive)
  /\ (last.op = "onaudioprocess" /\ sessionPromise # 0)
       => conn[sessionPromise].st \notin {"closed", "errored"}


\* Connections under start and stop: two sessions whose capture requests
\* are granted or denied, the suspended steps of start and stop, and the
\* open, resolve, close and error events of the connections.
NextConnect ==
  \/ Starting(SomeIn, {"none"}, {"granted", "denied"}, {FALSE}, {FALSE},
              MaxStarts)
  \/ Stopping({FALSE})
  \/ Connection
SpecConnect == InitReady /\ [][NextConnect]_vars

\* A connect call is made in this step: connection i leaves "none".
Connects(i) == conn[i].st = "none" /\ conn'[i].st = "connecting"

\* C16: a connect call is made only by a start sequence, for its own
\* connection and once; a connection that has closed or errored is never
\* connected again; and once the connection of the current session has
\* closed or errored no connect call is made before the user starts the
\* next session.
C16_NoReconnect ==
  [][/\ \A i \in Starts :
          /\ Connects(i) => (last'.op \in {"startMedia", "startResume"}
                             /\ last'.i = i)
          /\ conn[i].st # "none" => conn'[i].st # "connecting"
                                    \/ conn[i].st = "connecting"
     /\ (\E i \in Starts : Connects(i))
          => conn[nStarts].st \notin {"closed", "errored"}]_vars


\* C17: right after a connection error the status text reports the
\* connection error, the live display state is exited and the session is no
\* longer marked as recording, so that the next click on the record button
\* starts a session.
C17_ErrorEndsSession ==
  last.op = "onerror"
    => /\ recordingStatus = "Connection Error"
       /\ ~isLive
       /\ ~isRecording


\* Session lifecycle of VoiceNotesApp: two sessions with or without
\* translation, the suspended steps of start and stop, connection open,
\* capture frames, recognizer finals, recognizer end and the restart timer.
NextSession ==
  \/ Starting(SomeIn, SomeOut, {"granted"}, {FALSE}, {FALSE}, MaxStarts)
  \/ Stopping({FALSE})
  \/ \E i \in Starts : OnOpen(i)
  \/ \E p \in Starts : OnAudioProcess(p)
  \/ \E r \in Starts, ev \in OneFinal :
       /\ Cardinality(SegmentPositions(rawTranscription)) < TranslateFinals
       /\ RecognitionOnResult(r, ev)
  \/ \E r \in Starts : RecognitionOnEnd(r)
  \/ RestartTimer(FALSE)
SpecSession == InitV /\ [][NextSession]_vars

\* stopLiveSession has just run to its end.
StopJustCompleted ==
  last.op \in {"stop", "stopResume"} /\ recordingStatus = "Session Ended"

\* C18: when the stopLiveSession of a session has run to its end the active
\* flag is false, the session's audio-processing callback is removed and
\* the processor reference is null, the session's capture track is stopped
\* and the stream reference is null, both context references are null and
\* the session's two contexts are closed; and no restart timer calls start
\* on the recognizer of a session whose stop has completed.
C18_StopReleasesEverything ==
  /\ StopJustCompleted
       => /\ ~isWebSpeechActive
          /\ processor = 0 /\ ~proc[last.of].handler
          /\ stream = 0 /\ tracks[last.of] # "live"
          /\ audioContext = 0 /\ outputAudioContext = 0
          /\ ctxIn[last.of] \in {"none", "closed"}
          /\ ctxOut[last.of].state \in {"none", "closed"}
  /\ (last.op = "timer" /\ last.called) => sess[last.target].stop # "done"


\* C19: once stop has been invoked on a session, a result event of that
\* session's recognizer changes neither the transcript log nor the interim
\* slot and starts no translation request, and a capture frame of that
\* session's processor sends nothing to any connection.
C19_LateEventsIgnored ==
  [][/\ (last'.op = "onresult" /\ sess[last'.r].stop # "no")
          => UNCHANGED <<rawTranscription, rawInterimSpan, requests>>
     /\ (last'.op = "onaudioprocess" /\ sess[last'.p].stop # "no")
          => UNCHANGED <<pending, wire>>]_vars


\* C20: in every reachable state at most one capture stream has a live
\* track, at most one duplex connection is open and at most one start
\* sequence is suspended in progress.
C20_OneSessionAtATime ==
  /\ Cardinality({i \in Starts : tracks[i] \in {"live", "noaudio"}}) <= 1
  /\ Cardinality({i \in Starts : conn[i].st = "open"}) <= 1
  /\ Cardinality({i \in Starts : sess[i].pc \in {"media", "resume"}}) <= 1


\* C21: when the stop of a session has run to its end the session's
\* connection is no longer connecting or open and the reference to it is
\* released; and a text turn of a session that has not been stopped is
\* never handed to the connection of a session that has been stopped.
C21_StoppedConnectionUnused ==
  /\ StopJustCompleted
       => /\ sessionPromise = 0
          /\ conn[last.of].st \notin {"connecting", "open"}
  /\ (/\ last.op = "translated" /\ last.text # <<>> /\ last.to # 0
      /\ sess[last.from].stop = "no")
       => sess[last.to].stop = "no"


\* Inbound messages with one audio chunk that decodes, or none, and any
\* combination of input transcription, output transcription and text part.
InboundMessages ==
  {msg \in Messages : msg.audio <= 1 /\ msg.decodes}

\* One session of VoiceNotesApp during which the user may click the source
\* cards: start on either source with or without translation, connection
\* open, inbound messages and final recognizer results.
NextInbound ==
  \/ \E src \in Sources : SelectSource(src)
  \/ Starting(SomeIn, SomeOut, {"granted"}, {FALSE}, {FALSE}, OneSession)
  \/ \E i \in Starts : OnOpen(i)
  \/ \E i \in Starts, msg \in InboundMessages : OnMessage(i, msg)
  \/ \E r \in Starts, ev \in OneFinal :
       /\ Cardinality(SegmentPositions(rawTranscription)) < TranslateFinals
       /\ RecognitionOnResult(r, ev)
SpecInbound == InitV /\ [][NextInbound]_vars

\* C22: the handlers of a session act on the source the session was started
\* with, whatever the source cards show when they run: a final result is
\* handed to translation exactly when the session is a microphone session
\* with translation, the audio route is installed at open exactly when the
\* session's plan streams audio, and an inbound input transcription is
\* appended exactly when the session is a system-audio session.
C22_PlanFixedPerSession ==
  [][/\ (last'.op = "onresult" /\ last'.final # <<>>)
          => (last'.handed <=> (sess[last'.r].src = "mic"
                                /\ sess[last'.r].trans))
     /\ (last'.op = "onopen" /\ sourceNode # 0 /\ processor # 0
         /\ audioContext # 0)
          => (last'.install <=> (sess[last'.i].src = "system"
                                 \/ ~sess[last'.i].trans))
     /\ (last'.op = "onmessage" /\ last'.msg.inTr # <<>>)
          => ((SegmentCount(rawTranscription')
                 > SegmentCount(rawTranscription))
              <=> sess[last'.i].src = "system")]_vars


\* Status texts that report a failed acquisition of the capture stream.
AcquisitionReports ==
  {"System audio permission denied.", "Error starting session",
   "Microphone permission denied.", "Selection cancelled.",
   "System audio error."}

\* Capture acquisition in both classes: two start attempts on either source
\* whose request is granted or refused, stop, the status reset timer, a
\* connection closing and final recognizer results.
NextAcquire ==
  \/ \E src \in Sources : SelectSource(src)
  \/ Starting(SomeIn, {"none"}, Outcomes, {FALSE}, {FALSE}, MaxStarts)
  \/ Stopping({FALSE})
  \/ StatusReset
  \/ \E i \in Starts : OnClose(i)
  \/ \E r \in Starts, ev \in OneFinal :
       /\ SegmentCount(rawTranscription) < TranslateFinals
       /\ RecognitionOnResult(r, ev)
SpecAcquire == InitReady /\ [][NextAcquire]_vars

\* C23: when the capture request of start i is refused (permission denied,
\* no device, selection cancelled) the status text reports it, the session
\* is not recording, so that the next click starts again, the step
\* allocates no stream, recognizer, context, processor or connection, and
\* the start has not discarded the transcript that was on display.
C23_FailedAcquisitionHasNoEffect ==
  [][(last'.op = "startMedia" /\ last'.outcome \in {"denied", "failed"})
       => /\ recordingStatus' \in AcquisitionReports
          /\ ~isRecording'
          /\ UNCHANGED <<stream, recognition, audioContext,
                         outputAudioContext, sessionPromise, processor,
                         sourceNode, rec, tracks, ctxIn, ctxOut, conn, proc>>
          /\ (last.op = "start" /\ last.i = last'.i) => ~last.wiped]_vars


\* C24: when the system-audio grant of start i has no audio track, the
\* status text carries the no-audio report, which is neither the
\* permission-denied nor the cancelled report, every track of the granted
\* stream is stopped and the stream reference is null, the session is not
\* recording and no connection has been opened for it.
C24_NoAudioTrackReported ==
  (last.op = "startMedia" /\ last.outcome = "noaudio")
    => /\ recordingStatus =
            "No audio track selected. Did you forget to check 'Share Audio'?"
       /\ tracks[last.i] = "stopped"
       /\ stream = 0
       /\ ~isRecording
       /\ conn[last.i].st = "none"


\* C25: an inbound message appends to the raw log only in a session started
\* on system audio and only when it carries an input transcription; in a
\* session started on the microphone no inbound message adds a finalized
\* segment.
C25_RawLogSingleProducer ==
  [][(last'.op = "onmessage"
      /\ SegmentCount(rawTranscription') > SegmentCount(rawTranscription))
       => (sess[last'.i].src = "system" /\ last'.msg.inTr # <<>>)]_vars


\* C26: a message handled in a session started on system audio appends to
\* the translated log its output transcription when it has one, else the
\* first text part of its model turn when it has one, else nothing; never
\* more than one entry.
C26_OneTranslatedEntryPerMessage ==
  [][(last'.op = "onmessage" /\ sess[last'.i].src = "system")
       => translatedContent' =
            IF last'.msg.outTr # <<>>
              THEN Append(translatedContent, last'.msg.outTr)
            ELSE IF last'.msg.part # <<>>
              THEN Append(translatedContent, last'.msg.part)
            ELSE translatedContent]_vars


\* C27: a message with synthesized audio handled in a session started on
\* system audio with translation leaves the active mark on the most recent
\* finalized segment the log had when it arrived and on no other; a message
\* with audio handled in a session of any other mode changes no mark.
C27_AudioMarksLastSegment ==
  [][(last'.op = "onmessage" /\ last'.msg.audio > 0)
       => IF sess[last'.i].src = "system" /\ sess[last'.i].trans
            THEN SegmentPositions(rawTranscription) # {}
                   => \A k \in SegmentPositions(rawTranscription) :
                        rawTranscription'[k].active
                          <=> k = SetMax(SegmentPositions(rawTranscription))
            ELSE \A k \in 1..Len(rawTranscription) :
                   rawTranscription'[k].active = rawTranscription[k].active
     ]_vars


\* Inbound messages with an audio chunk that decodes or not, with or
\* without an output transcription.
ChunkMessages ==
  {msg \in Messages : msg.audio > 0 /\ msg.inTr = <<>> /\ msg.part = <<>>}

\* Playback with failing chunks in one session of VoiceNotesApp on either
\* source with translation, while the clock advances.
NextDrop ==
  \/ SelectSource("system")
  \/ Starting(SomeIn, {"es"}, {"granted"}, {FALSE}, {FALSE}, OneSession)
  \/ \E i \in Starts : OnOpen(i)
  \/ \E i \in Starts, msg \in ChunkMessages : OnMessage(i, msg)
  \/ Tick
SpecDrop == InitV /\ [][NextDrop]_vars

\* The chunk of the message fails in decoding or in scheduling.
ChunkFails(msg) ==
  /\ msg.audio > 0
  /\ outputAudioContext # 0 /\ outputGainNode # 0
  /\ (~msg.decodes \/ outputGainNode # outputAudioContext)

\* C28: a message whose chunk fails to decode or to be scheduled leaves the
\* cursor and the scheduled chunks as they were, and the handler goes on to
\* the message's text; a chunk that decodes, whether or not chunks were
\* dropped before it, is appended to the schedule at the larger of cursor
\* and current time and moves the cursor to that start plus its duration.
C28_FailedChunkDropped ==
  [][last'.op = "onmessage"
       => /\ ChunkFails(last'.msg)
               => /\ UNCHANGED <<nextStartTime, scheduled>>
                  /\ translatedContent' =
                       MessageTranslated(translatedContent, last'.msg)
          /\ (/\ last'.msg.audio > 0 /\ last'.msg.decodes
              /\ outputAudioContext # 0
              /\ outputGainNode = outputAudioContext)
               => LET now == ctxOut[outputAudioContext].time
                      at  == IF nextStartTime < now THEN now
                             ELSE nextStartTime
                  IN  /\ Len(scheduled') = Len(scheduled) + 1
                      /\ scheduled'[Len(scheduled')].start = at
                      /\ nextStartTime' = at + last'.msg.audio]_vars

\* A chunk has been scheduled right after a dropped one, behind an earlier
\* chunk, with the cursor ahead of the clock.
C28_Witness ==
  /\ last.op = "onmessage" /\ last.played /\ last.afterDrop
  /\ Len(scheduled) = 2
  /\ LastChunk.cursor > LastChunk.now


\* ---- Sample conversion of the playback and the capture path ----

\* dataInt16[i] / 32768.0 in decodeAudioData.
DecodeScale == 32768
\* 0x7FFF in onaudioprocess.
EncodeScale == 32767
\* Number of values of an element of an Int16Array.
Int16Modulus == 65536

\* The values of an element of an Int16Array.
Int16Samples == (0 - Int16Modulus \div 2) .. (Int16Modulus \div 2 - 1)

\* A sample value as an exact fraction num / den with den > 0: the quotient
\* of a 16-bit integer by a power of two is exact in a Float32Array.
DecodeSample(s) == [num |-> s, den |-> DecodeScale]

\* Math.max(-1, Math.min(1, x)).
ClampSample(x) ==
  IF x.num > x.den THEN [num |-> 1, den |-> 1]
  ELSE IF x.num < 0 - x.den THEN [num |-> 0 - 1, den |-> 1]
  ELSE x

\* Conversion of a number to integer dropping its fraction, as the store
\* into an Int16Array does before wrapping.
Truncate(num, den) ==
  IF num >= 0 THEN num \div den ELSE 0 - ((0 - num) \div den)

\* Wrapping of an integer into the 16-bit two's complement range.
ToInt16(n) == ((n + Int16Modulus \div 2) % Int16Modulus) - Int16Modulus \div 2

\* The capture path's quantization without its scale factor.
QuantizeUnscaled(x) ==
  ToInt16(Truncate(ClampSample(x).num, ClampSample(x).den))

\* pcmData[i] = Math.max(-1, Math.min(1, inputData[i])) * 0x7FFF.
Quantize(x) ==
  ToInt16(Truncate(ClampSample(x).num * EncodeScale, ClampSample(x).den))

\* decodeAudioData converts one received sample, the first thing to happen.
DecodeStep(s) ==
  /\ last.op = "init"
  /\ last' = [op |-> "decoded", s |-> s, x |-> DecodeSample(s)]
  /\ UNCHANGED <<constVars, uiVars, domVars, fieldVars, objVars, sendVars>>
  /\ UNCHANGED <<selectedSourceType, isRecording, isWebSpeechActive,
                 nextStartTime, nStarts, sess, conn, stops, timers, requests,
                 scheduled>>


\* onaudioprocess converts the decoded sample back to 16-bit PCM.
EncodeStep ==
  /\ last.op = "decoded"
  /\ last' = [op |-> "encoded", s |-> last.s, x |-> last.x,
              pcm |-> Quantize(last.x)]
  /\ UNCHANGED <<constVars, uiVars, domVars, fieldVars, objVars, sendVars>>
  /\ UNCHANGED <<selectedSourceType, isRecording, isWebSpeechActive,
                 nextStartTime, nStarts, sess, conn, stops, timers, requests,
                 scheduled>>

\* Every 16-bit sample through the playback decoding and then the capture
\* quantization.
Decoding ==
  /\ last.op = "init"
  /\ \E s \in Int16Samples : DecodeStep(s)
NextSample ==
  \/ Decoding
  \/ EncodeStep
SpecSample == InitV /\ [][NextSample]_vars

\* C29: a 16-bit sample decoded by the playback path and re-encoded by the
\* capture path's quantization differs from the re-encoded value by at
\* most 1.
C29_RoundTripWithinOne ==
  last.op = "encoded"
    => /\ last.pcm - last.s <= 1
       /\ last.s - last.pcm <= 1

\* The most negative sample has been re-encoded: its decoded value is -1,
\* the only one the clamp bound is reached by, and it comes back one higher.
C29_Witness ==
  /\ last.op = "encoded"
  /\ last.s = 0 - Int16Modulus \div 2
  /\ last.x.num = 0 - last.x.den
  /\ last.pcm = last.s + 1


\* ---- Order of the captured frames ----

\* Frame capture over two microphone sessions without translation, in
\* either class: start,
\* stop, the connection callbacks with the promise resolving at any time
\* after the open, and the capture callback.
NextFrames ==
  \/ Starting(SomeIn, {"none"}, {"granted"}, {FALSE}, {FALSE}, MaxStarts)
  \/ Stopping({FALSE})
  \/ Connection
  \/ \E p \in Starts : OnAudioProcess(p)
SpecFrames == InitReady /\ [][NextFrames]_vars

\* The capture numbers of the audio frames of a sequence of sends.
RECURSIVE FrameNumbers(_)
FrameNumbers(q) ==
  IF q = <<>> THEN <<>>
  ELSE IF Head(q).kind = "audio"
    THEN <<Head(q).n>> \o FrameNumbers(Tail(q))
  ELSE FrameNumbers(Tail(q))

\* A sequence of numbers in strictly increasing order.
Ascending(q) == \A j, k \in DOMAIN q : j < k => q[j] < q[k]

\* C30: the frames sent to a session, followed by the frames still waiting
\* on its connection promise, are in capture order, and a step never takes
\* back or reorders what was sent: frames captured before the promise has
\* resolved are sent, at its resolution, ahead of every later frame.
C30_FramesSentInCaptureOrder ==
  [][\A i \in Starts :
       /\ Ascending(FrameNumbers(wire'[i] \o pending'[i]))
       /\ Len(wire'[i]) >= Len(wire[i])
       /\ SubSeq(wire'[i], 1, Len(wire[i])) = wire[i]]_vars

\* Two frames were captured before the promise resolved, and its resolution
\* has just sent both.
C30_Witness ==
  /\ last.op = "resolve"
  /\ FrameNumbers(wire[last.i]) = <<1, 2>>


\* ---- Order of the recognizer's finals downstream ----

\* Two result events, each one final result, with different texts.
TwoFinals == {<<[isFinal |-> TRUE, transcript |-> <<"a">>]>>,
              <<[isFinal |-> TRUE, transcript |-> <<"a", "b">>]>>}

\* One microphone session of VoiceNotesApp with translation: two finals,
\* and the answers of the translation client in any order.
NextOrder ==
  \/ Starting(SomeIn, {"es"}, {"granted"}, {FALSE}, {FALSE}, OneSession)
  \/ \E i \in Starts : OnOpen(i)
  \/ \E i \in Starts : ConnResolve(i)
  \/ \E r \in Starts, ev \in TwoFinals : RecognitionOnResult(r, ev)
  \/ \E k \in 1..MaxRequests, outcome \in TranslationOutcomes :
       TranslationReturns(k, outcome)
SpecOrder == InitV /\ [][NextOrder]_vars

\* The text turns among a sequence of sends.
RECURSIVE TextTurns(_)
TextTurns(q) ==
  IF q = <<>> THEN <<>>
  ELSE IF Head(q).kind = "text"
    THEN <<Head(q).text>> \o TextTurns(Tail(q))
  ELSE TextTurns(Tail(q))

\* Entry n of the sequence is the translation of the final shown by raw
\* segment k.
TranslationOf(q, n, k) ==
  q[n] \o <<" ">> = <<"T">> \o rawTranscription[k].text

\* The translations of two different finals stand in the sequence in the
\* order of the finals in the raw log.
InFinalOrder(q) ==
  \A j, k \in SegmentPositions(rawTranscription) :
    (j < k /\ rawTranscription[j].text # rawTranscription[k].text)
      => \A m, n \in DOMAIN q :
           (TranslationOf(q, m, j) /\ TranslationOf(q, n, k)) => m < n

\* C31: in a microphone translation session, the translations of two
\* different finals are in the translated log, and among the speak turns
\* handed to the session, in the order in which the finals were delivered.
C31_FinalsForwardedInOrder ==
  /\ InFinalOrder(translatedContent)
  /\ \A i \in Starts : InFinalOrder(TextTurns(wire[i] \o pending[i]))


\* ---- Order of the inbound messages downstream ----

\* Inbound messages with or without a chunk of one time unit, with input
\* and output transcriptions out of two different texts.
ArrivalTexts == {<<"x">>, <<"y">>}
ArrivalMessages ==
  [audio : 0..1, decodes : {TRUE},
   inTr : ArrivalTexts \cup {<<>>}, outTr : ArrivalTexts \cup {<<>>},
   part : {<<>>}]

\* One session of VoiceNotesApp with translation on either source: inbound
\* messages while the clock advances.
NextArrival ==
  \/ SelectSource("system")
  \/ Starting(SomeIn, {"es"}, {"granted"}, {FALSE}, {FALSE}, OneSession)
  \/ \E i \in Starts : OnOpen(i)
  \/ \E i \in Starts, msg \in ArrivalMessages : OnMessage(i, msg)
  \/ Tick
SpecArrival == InitV /\ [][NextArrival]_vars

\* Sequence q is sequence p with the elements of sequence new after it.
Extends(q, p, new) == q = p \o new

\* C32: each inbound message is handled after every message received before
\* it: its chunk is scheduled behind every chunk already scheduled, at or
\* after the end of the last one, and its input and output transcriptions
\* go to the end of the raw and the translated log; nothing already
\* scheduled or logged is moved.
C32_MessagesHandledInArrivalOrder ==
  [][(last'.op = "onmessage" /\ app = "VoiceNotesApp")
       => LET msg == last'.msg
              sys == selectedSourceType = "system"
          IN
          /\ IF last'.played
               THEN /\ Len(scheduled') = Len(scheduled) + 1
                    /\ SubSeq(scheduled', 1, Len(scheduled)) = scheduled
                    /\ \A k \in DOMAIN scheduled :
                         scheduled[k].start + scheduled[k].dur
                           <= scheduled'[Len(scheduled')].start
               ELSE scheduled' = scheduled
          /\ Extends(Finalized(rawTranscription'),
                     Finalized(rawTranscription),
                     IF sys /\ msg.inTr # <<>>
                       THEN <<SegmentText(app, msg.inTr)>> ELSE <<>>)
          /\ Extends(translatedContent', translatedContent,
                     IF sys /\ msg.outTr # <<>>
                       THEN <<msg.outTr>> ELSE <<>>)]_vars

\* The second of two messages, each with a chunk and both transcriptions,
\* has been handled: the logs hold the first message's texts before the
\* second's and the second chunk starts where the first ends.
C32_Witness ==
  /\ last.op = "onmessage" /\ last.played
  /\ last.msg.inTr = <<"y">> /\ last.msg.outTr = <<"x">>
  /\ Len(scheduled) = 2
  /\ scheduled[2].start = scheduled[1].start + scheduled[1].dur
  /\ translatedContent = <<<<"y">>, <<"x">>>>
  /\ Finalized(rawTranscription) = <<<<"x", " ">>, <<"y", " ">>>>


\* ---- Finalized raw segments ----

\* The step leaves the finalized raw segments as they are or puts one new
\* segment behind them: the rendering of the final text of a recognizer
\* result or of the input transcription of an inbound message.
FinalizedGrowsAtEnd ==
  LET old == Finalized(rawTranscription)
      new == Finalized(rawTranscription')
  IN  /\ \/ new = old
         \/ /\ last'.op = "onresult" /\ last'.final # <<>>
            /\ new = Append(old, SegmentText(app, last'.final))
         \/ /\ last'.op = "onmessage" /\ last'.msg.inTr # <<>>
            /\ new = Append(old, SegmentText(app, last'.msg.inTr))
      /\ (last'.op = "onresult" /\ last'.final = <<>>) => new = old

\* C33 as stated: within a session, that is in every step but the start of
\* a session, the finalized raw segments are kept as they are or grow by one
\* segment at the end.
C33_FinalizedAppendOnly ==
  [][last'.op # "start" => FinalizedGrowsAtEnd]_vars

\* C33 amended: within a session and as long as the new-note button is not
\* pressed, the finalized raw segments are kept as they are or grow by one
\* segment at the end, which is the final text of a recognizer result or
\* the input transcription of an inbound message; a result with interim
\* text only leaves them unchanged.
C33_FinalizedAppendOnlyWithinNote ==
  [][last'.op \notin {"start", "createNewNote"} => FinalizedGrowsAtEnd]_vars

\* An interim update has left two finalized segments as they were, and the
\* slot holds the interim text.
C33_Witness ==
  /\ last.op = "onresult" /\ last.final = <<>>
  /\ last.interim = <<"a", "b">>
  /\ Len(Finalized(rawTranscription)) = 2
  /\ InterimText(rawTranscription, rawInterimSpan) = <<"a", "b">>
  /\ isRecording


\* ---- Late recognizer callbacks ----

\* C34: a restart timer set by the onend of a recognizer whose session has
\* been stopped, firing when a later session's recognizer is the current
\* one, does not call start and leaves the adapter's active flag as it was.
C34_LateCallbackHarmless ==
  (/\ last.op = "timer"
   /\ last.target # 0 /\ last.from < last.target
   /\ sess[last.from].stop # "no")
    => /\ ~last.called
       /\ isWebSpeechActive = last.active


\* ---- Connection opening after stop ----

\* C35: the onopen callback of a connection enters the live display state
\* only while the session is recording: when stop has been invoked for the
\* connection's session before it opens, the display is not live and the
\* status text is not "Live Session Active" after the callback.
C35_NoLiveDisplayAfterStop ==
  last.op = "onopen"
    => /\ isLive => isRecording
       /\ sess[last.i].stop # "no"
            => /\ ~isLive
               /\ recordingStatus # "Live Session Active"


\* ---- Resources at rest ----

\* No startLiveSession is suspended at an await and no stopLiveSession is
\* suspended at a close().
NoCallInProgress ==
  /\ \A i \in Starts : sess[i].pc \notin {"media", "resume"}
  /\ stops = <<>>

\* C36: whenever the session is not recording and no start or stop call is
\* in progress, no capture track is live, no audio-processing callback is
\* installed, no audio context is open and the recognizer adapter is not
\* marked active.
C36_NothingHeldAtRest ==
  (~isRecording /\ NoCallInProgress)
    => /\ \A i \in Starts : tracks[i] \notin {"live", "noaudio"}
       /\ \A p \in Starts : ~proc[p].handler
       /\ \A c \in Starts : /\ ctxIn[c] \in {"none", "closed"}
                            /\ ctxOut[c].state \in {"none", "closed"}
       /\ ~isWebSpeechActive


\* ---- Translation answered after stop ----

\* C37: the answer to a translation request that was issued before stop was
\* invoked on its session and that arrives after stop was invoked leaves
\* the translated log and the sends of every connection as they were.
C37_LateTranslationIgnored ==
  [][(/\ last'.op = "translated"
      /\ ~last'.late
      /\ sess[last'.from].stop # "no")
       => UNCHANGED <<translatedContent, pending, wire>>]_vars

============================================================================
